---- MODULE Spec2Model ----
(***************************************************************************)
(* Model of the gaia Task dataflow node (gaia/core/task.py) and of the     *)
(* girder_worker docker executor (girder_worker/plugins/docker).           *)
(***************************************************************************)
EXTENDS FiniteSets, Integers, Sequences, TLC

VARIABLES
    \* ---- gaia.core.task.Task ----
    dirty,          \* backing field _dirty of the 'dirty' property
    input_data,     \* Task._input_data
    output_data,    \* Task._output_data
    \* ---- observation of the last Task operation ----
    lastOp,         \* name of the last operation called on the task
    raised,         \* TRUE when the last operation raised
    ret,            \* value returned by the last get_input/get_output
    lastKw,         \* keyword map of the last set_input call
    preDirty,       \* observable dirty flag before the last operation
    preInput,       \* _input_data before the last operation
    assigned,       \* value written by the last assignment to 'dirty'
    opRuns,         \* run() invocations made by the last operation
    getRuns,        \* run() invocations made by get_output since the last set_input
    cleanRuns,      \* the same, since the last set_input or dirty := True
    cleanCalls,     \* successful get_output calls over that stretch (saturates at 2)
    getRets,        \* per output, the values get_output returned since the last set_input
    resets,         \* _reset() firings during the last operation
    overflow,       \* TRUE when the last operation exceeded the recursion limit
    \* ---- girder_worker docker plugin ----
    task_outputs,   \* declared outputs: output id -> port spec
    vresult,        \* outcome of validate_task_outputs
    mode,           \* task['mode']
    pull_image,     \* task['pull_image']: "True", "False" or "absent"
    pc,             \* position of the run
    error,          \* message of the exception being raised, NoError when none
    phases,         \* lifecycle phases entered so far, in order
    pulls,          \* image pulls started
    pull_returncode, \* p.returncode of docker pull, -1 while unknown
    fifos,          \* FIFOs created in the scratch directory
    opipes,         \* output pipe map: key -> adapter
    launches,       \* calls of containers.run for the task's image
    attached,       \* sockets attach_socket has returned
    closes,         \* close() calls per socket
    files,          \* host paths the container has written
    gcSpawned,      \* docker-gc processes started
    gcWaited,       \* waits on the docker-gc process
    returncode,     \* p.returncode of the docker-gc process, -1 while unknown
    script_data,    \* outputs[id]['script_data'] recorded by the run
    busybox,        \* permission-fixup containers run by cleanup
    fixup_error,    \* the exception the permission-fixup container raised
    task_inputs,    \* declared inputs: input id -> port spec
    ipipes,         \* input pipe map: key -> adapter
    openfds,        \* descriptors the host holds open on FIFOs
    fdflags,        \* the flags each FIFO descriptor was opened with
    status,         \* container.status
    active,         \* keys of the output map the select loop still polls
    eofs,           \* descriptors whose next read returns end of file
    iteration,      \* parity of the iterations the running select loop has made
    \* ---- expansion of the container arguments ----
    container_args, \* task['container_args']: the argument templates
    inputs,         \* resolved inputs: input id -> value
    taskInputs,     \* input ports: input id -> port spec
    epc,            \* position in the expansion and launch of the arguments
    args,           \* the expanded argument list
    expand_error    \* message of the exception _expand_args raised

taskVars == <<dirty, input_data, output_data, lastOp, raised, ret, lastKw,
              preDirty, preInput, assigned, opRuns, getRuns, cleanRuns,
              cleanCalls, getRets, resets, overflow>>

valVars == <<task_outputs, vresult>>

runVars == <<mode, pull_image, pc, error, phases, pulls, pull_returncode, fifos, opipes,
             launches, attached, closes, files, gcSpawned, gcWaited, returncode,
             script_data, busybox, task_inputs, ipipes, openfds, fdflags, status,
             active, eofs,
             iteration, fixup_error>>

expandVars == <<container_args, inputs, taskInputs, epc, args, expand_error>>

vars == <<taskVars, valVars, runVars, expandVars>>

None == "None"

-----------------------------------------------------------------------------
(* Bounds *)

\* longest chain of nested property notifications followed (recursion limit)
MaxDepth == 3
\* cap on the counters of run() invocations since the last bind
MaxRuns == 2

-----------------------------------------------------------------------------
(* The task under test: Task({'inputs': ['0', 'a'], 'outputs': ['0']}) *)

\* declared input ports (Task._inputs)
TaskInputPorts == {"0", "a"}
\* declared output ports (Task._outputs)
TaskOutputPorts == {"0"}
\* port names a caller may pass; "zz" is declared nowhere
PortNames == {"0", "a", "zz"}
\* plain values
PlainValues == {"v1", "v2"}
\* dict values: binding descriptors of another task's output
Descriptors == {"desc"}
BindValues == PlainValues \cup Descriptors

isinstance_dict(value) == value \in Descriptors

\* The keyword maps of a set_input call, positional arguments already
\* converted (kw[str(i)] = a).
KwMaps == UNION {[S -> BindValues] : S \in SUBSET PortNames}

\* The orders in which iterating a dict with key set S may yield its keys.
Orders(S) ==
    {o \in [1..Cardinality(S) -> S] :
        \A i, j \in DOMAIN o : i # j => o[i] # o[j]}

\* The orders in which six.iteritems(kw) may yield the items of kw.
IterOrders(kw) == Orders(DOMAIN kw)

-----------------------------------------------------------------------------
(* The 'dirty' property: Task.add_property('dirty', default=True,          *)
(* on_change=Task._reset_downstream).  A property state is the record      *)
(* [dirty, resets, overflow].                                              *)

RECURSIVE property_set(_, _, _)
RECURSIVE _reset(_, _)

\* getter of the property: the backing field
property_get(s) == s.dirty

\* variant: propagates on every assignment of True
reset_downstream_fires_always(cur, isdirty) == isdirty

\* the condition under which _reset_downstream propagates
reset_downstream_fires(cur, isdirty) == isdirty /\ ~cur

\* Task._reset_downstream(self, _, isdirty)
_reset_downstream(s, old, isdirty, depth) ==
    IF reset_downstream_fires(property_get(s), isdirty)
    THEN _reset(s, depth)
    ELSE s

\* setter of the property: store the value, then call on_change(self, old, new)
property_set(s, value, depth) ==
    IF depth > MaxDepth
    THEN [s EXCEPT !.overflow = TRUE]
    ELSE LET old == property_get(s)
             s1  == [s EXCEPT !.dirty = value]
         IN _reset_downstream(s1, old, value, depth)

\* Task._reset: self.dirty = True
_reset(s, depth) ==
    property_set([s EXCEPT !.resets = @ + 1], TRUE, depth + 1)

PropState(d) == [dirty |-> d, resets |-> 0, overflow |-> FALSE]

\* Task.run of the reference implementation: self.dirty = False
run(s) == property_set(s, FALSE, 0)

-----------------------------------------------------------------------------
(* Task.set_input *)

\* variant: the bind leaves the flag as it was
set_input_mark_skip(d) == d

\* self._dirty = True, written to the backing field of the property
set_input_mark(d) == TRUE

RECURSIVE set_input_loop(_, _, _, _, _)
\* the for loop over six.iteritems(kw); d is _dirty so far
set_input_loop(kw, order, i, fetched, d) ==
    IF i > Len(order)
    THEN [dirty |-> d, raised |-> FALSE]
    ELSE LET name  == order[i]
             value == kw[name]
         IN IF name \notin TaskInputPorts
            THEN [dirty |-> d, raised |-> TRUE]
            ELSE LET data0 == IF isinstance_dict(value) THEN fetched ELSE None
                     data  == IF data0 = None THEN value ELSE data0
                 IN \* data is a local that is dropped
                    set_input_loop(kw, order, i + 1, fetched, set_input_mark(d))

TaskObserved(op, r, v) ==
    /\ lastOp' = op
    /\ raised' = r
    /\ ret' = v
    /\ preDirty' = dirty
    /\ preInput' = input_data
    /\ UNCHANGED <<valVars, runVars, expandVars>>

set_input(kw, order, fetched) ==
    LET r == set_input_loop(kw, order, 1, fetched, dirty)
    IN /\ dirty' = r.dirty
       /\ TaskObserved("set_input", r.raised, None)
       /\ lastKw' = kw
       /\ opRuns' = 0
       /\ getRuns' = 0
       /\ cleanRuns' = 0
       /\ cleanCalls' = 0
       /\ getRets' = [n \in TaskOutputPorts |-> {}]
       /\ resets' = 0
       /\ overflow' = FALSE
       /\ UNCHANGED <<input_data, output_data, assigned>>

\* Task.get_input
get_input(name) ==
    /\ TaskObserved("get_input", FALSE,
                    IF name \in DOMAIN input_data THEN input_data[name] ELSE None)
    /\ opRuns' = 0
    /\ resets' = 0
    /\ overflow' = FALSE
    /\ UNCHANGED <<dirty, input_data, output_data, lastKw, assigned, getRuns,
                   cleanRuns, cleanCalls, getRets>>

\* variant: get_output recomputes on every call
get_output_runs_always(d) == TRUE

\* variant: get_output never recomputes
get_output_runs_never(d) == FALSE

\* whether get_output recomputes before it reads the cache
get_output_runs(d) == d

\* Task.get_output
get_output(name) ==
    IF name \notin TaskOutputPorts
    THEN /\ TaskObserved("get_output", TRUE, None)
         /\ opRuns' = 0
         /\ resets' = 0
         /\ overflow' = FALSE
         /\ UNCHANGED <<dirty, input_data, output_data, lastKw, assigned,
                        getRuns, cleanRuns, cleanCalls, getRets>>
    ELSE LET s0 == PropState(dirty)
             doRun == get_output_runs(property_get(s0))
             s1 == IF doRun THEN run(s0) ELSE s0
             n  == IF doRun THEN 1 ELSE 0
             v  == IF name \in DOMAIN output_data
                   THEN output_data[name] ELSE None
         IN /\ getRuns + n <= MaxRuns
            /\ dirty' = s1.dirty
            /\ TaskObserved("get_output", FALSE, v)
            /\ opRuns' = n
            /\ getRuns' = getRuns + n
            /\ cleanRuns' = cleanRuns + n
            /\ cleanCalls' = IF cleanCalls < 2 THEN cleanCalls + 1 ELSE 2
            /\ getRets' = [getRets EXCEPT ![name] = @ \cup {v}]
            /\ resets' = s1.resets
            /\ overflow' = s1.overflow
            /\ UNCHANGED <<input_data, output_data, lastKw, assigned>>

\* a direct call of Task.run
run_call ==
    LET s1 == run(PropState(dirty))
    IN /\ dirty' = s1.dirty
       /\ TaskObserved("run", FALSE, None)
       /\ opRuns' = 1
       /\ resets' = s1.resets
       /\ overflow' = s1.overflow
       /\ UNCHANGED <<input_data, output_data, lastKw, assigned, getRuns,
                      cleanRuns, cleanCalls, getRets>>

\* an assignment task.dirty = value
dirty_assign(value) ==
    LET s1 == property_set(PropState(dirty), value, 0)
    IN /\ dirty' = s1.dirty
       /\ TaskObserved("dirty_assign", FALSE, None)
       /\ assigned' = value
       /\ opRuns' = 0
       /\ cleanRuns' = IF value THEN 0 ELSE cleanRuns
       /\ cleanCalls' = IF value THEN 0 ELSE cleanCalls
       /\ resets' = s1.resets
       /\ overflow' = s1.overflow
       /\ UNCHANGED <<input_data, output_data, lastKw, getRuns, getRets>>

\* Task.__init__ ; 'dirty' reads its default (True) until first assigned
TaskInit ==
    /\ dirty = TRUE
    /\ input_data = <<>>
    /\ output_data = <<>>
    /\ lastOp = "init"
    /\ raised = FALSE
    /\ ret = None
    /\ lastKw = <<>>
    /\ preDirty = TRUE
    /\ preInput = <<>>
    /\ assigned = TRUE
    /\ opRuns = 0
    /\ getRuns = 0
    /\ cleanRuns = 0
    /\ cleanCalls = 0
    /\ getRets = [n \in TaskOutputPorts |-> {}]
    /\ resets = 0
    /\ overflow = FALSE

SetInputStep ==
    \E kw \in KwMaps : \E order \in IterOrders(kw) :
        \E fetched \in {None, "v1"} : set_input(kw, order, fetched)
GetInputStep == \E name \in PortNames : get_input(name)
GetOutputStep == \E name \in PortNames : get_output(name)
RunStep == run_call
DirtyAssignStep == \E value \in BOOLEAN : dirty_assign(value)

TaskNext ==
    \/ SetInputStep
    \/ GetInputStep
    \/ GetOutputStep
    \/ RunStep
    \/ DirtyAssignStep

-----------------------------------------------------------------------------
(* girder_worker.plugins.docker.executor: strings and paths.  A string is  *)
(* the sequence of its pieces; "/" is always a piece of its own and no     *)
(* piece is the concatenation of other pieces, so two strings are equal    *)
(* exactly when their sequences are.                                       *)

DATA_VOLUME == <<"/", "mnt", "/", "girder_worker", "/", "data">>

\* str.startswith
startswith(str, prefix) ==
    /\ Len(prefix) <= Len(str)
    /\ SubSeq(str, 1, Len(prefix)) = prefix

\* output ids
StdoutId == <<"_stdout">>
StderrId == <<"_stderr">>
OutputIds == {StdoutId, StderrId, <<"out">>, <<"/", "etc", "/", "out">>}

\* values of a port's 'target' field; None when the field is absent
Targets == {None, "filepath", "memory"}

\* an absent 'path' field
NoPath == <<>>

\* values of a port's 'path' field
OutputPaths ==
    { NoPath,
      <<"out.txt">>,
      DATA_VOLUME \o <<"/", "ok.txt">>,
      DATA_VOLUME \o <<"/">>,
      DATA_VOLUME,
      DATA_VOLUME \o <<"2", "/", "x">>,
      <<"/", "etc", "/", "passwd">> }

PortSpecs == [target : Targets, path : OutputPaths, stream : BOOLEAN]

\* spec.get('path', name)
spec_path(name, spec) == IF spec.path = NoPath THEN name ELSE spec.path

\* variant: the mount root is matched without the separator after it
output_path_rejected_no_sep(path) ==
    startswith(path, <<"/">>) /\ ~startswith(path, DATA_VOLUME)

\* the test that rejects a filepath output path
output_path_rejected(path) ==
    startswith(path, <<"/">>) /\ ~startswith(path, DATA_VOLUME \o <<"/">>)

RECURSIVE validate_loop(_, _, _)
\* the for loop of validate_task_outputs over task_outputs.iteritems()
validate_loop(outs, order, i) ==
    IF i > Len(order)
    THEN "ok"
    ELSE LET name == order[i]
             spec == outs[name]
         IN IF spec.target = "filepath"
            THEN IF output_path_rejected(spec_path(name, spec))
                 THEN "TaskSpecValidationError"
                 ELSE validate_loop(outs, order, i + 1)
            ELSE IF name \notin {StdoutId, StderrId}
                 THEN "TaskSpecValidationError"
                 ELSE validate_loop(outs, order, i + 1)

validate_task_outputs(outs, order) == validate_loop(outs, order, 1)

\* most ports a task declares as outputs
MaxOutputs == 2

\* the declared-output maps validate_task_outputs is applied to
OutputMaps ==
    UNION {[S -> PortSpecs] :
             S \in {T \in SUBSET OutputIds : Cardinality(T) <= MaxOutputs}}

ValInit ==
    /\ task_outputs \in OutputMaps
    /\ vresult = "pending"

ValidateStep ==
    /\ vresult = "pending"
    /\ \E order \in Orders(DOMAIN task_outputs) :
          vresult' = validate_task_outputs(task_outputs, order)
    /\ UNCHANGED <<taskVars, expandVars>>
    /\ UNCHANGED fixup_error
    /\ UNCHANGED <<task_outputs, taskVars, runVars, expandVars>>

ValIdle == task_outputs = <<>> /\ vresult = "idle"

-----------------------------------------------------------------------------
(* girder_worker.plugins.docker: one run of a task, from the 'run.before'  *)
(* event to the 'run.finally' event.                                       *)

\* the scratch directory of the run, kwargs['_tempdir']
TEMPDIR == <<"/", "tmp", "/", "scratch">>

\* os.path.join(a, b)
path_join(a, b) == IF startswith(b, <<"/">>) THEN b ELSE a \o <<"/">> \o b

RECURSIVE find_from(_, _, _)
\* str.find: first index at or after i where sub occurs in str, 0 when none
find_from(str, sub, i) ==
    IF i + Len(sub) - 1 > Len(str) THEN 0
    ELSE IF SubSeq(str, i, i + Len(sub) - 1) = sub THEN i
    ELSE find_from(str, sub, i + 1)

\* str.replace(old, new, 1)
replace_first(str, old, new) ==
    LET i == find_from(str, old, 1)
    IN IF i = 0 THEN str
       ELSE SubSeq(str, 1, i - 1) \o new \o SubSeq(str, i + Len(old), Len(str))

\* the declared outputs of the tasks that are run
RunOutputIds == {StdoutId, StderrId, <<"out">>, <<"res">>}
RunPortSpecs ==
    [target : {None, "filepath"},
     path : {NoPath, <<"out.txt">>, DATA_VOLUME \o <<"/", "ok.txt">>,
             <<"/", "etc", "/", "passwd">>},
     stream : BOOLEAN]
\* the specs tried for each output id
RunSpecsOf(id) ==
    IF id = StdoutId
    THEN {sp \in RunPortSpecs : sp.path = NoPath}
    ELSE IF id = StderrId
    THEN {sp \in RunPortSpecs : sp.path = NoPath /\ sp.target = None /\ ~sp.stream}
    ELSE IF id = <<"res">>
    THEN {sp \in RunPortSpecs : sp.path \in {NoPath, <<"out.txt">>}
                                /\ sp.target = "filepath"}
    ELSE RunPortSpecs
RunOutputMaps ==
    UNION {{outs \in [S -> RunPortSpecs] : \A id \in S : outs[id] \in RunSpecsOf(id)} :
             S \in SUBSET RunOutputIds}

\* the declared inputs of the tasks that are run; every declared input is
\* bound (present in inputs) when the executor is called
StdinId == <<"_stdin">>
RunInputIds == {<<"in">>, StdinId}
RunInputSpecs ==
    {[target |-> "filepath", path |-> NoPath, stream |-> TRUE],
     [target |-> "filepath", path |-> <<"out.txt">>, stream |-> TRUE],
     [target |-> "filepath", path |-> NoPath, stream |-> FALSE],
     [target |-> None, path |-> NoPath, stream |-> TRUE]}
\* the specs of _stdin: not a file, streaming or not
StdinSpecs == [target : {None}, path : {NoPath}, stream : BOOLEAN]
\* the specs tried for each input id
RunInputSpecsOf(id) == IF id = StdinId THEN StdinSpecs ELSE RunInputSpecs
RunInputMaps ==
    UNION {{ins \in [S -> RunInputSpecs \cup StdinSpecs] :
               \A id \in S : ins[id] \in RunInputSpecsOf(id)} :
             S \in SUBSET RunInputIds}

Modes == {"docker", "python"}

\* keys of the pipe maps
FifoFd(path) == [k |-> "fifo", v |-> path]
IdKey(id) == [k |-> "id", v |-> id]
SockFd(name) == [k |-> "sock", v |-> <<name>>]

SockNames == {"stdout", "stderr"}

\* variant: outputs are never validated before a run
before_run_validates_never(m) == FALSE

\* before_run validates the outputs of docker-mode tasks only
before_run_validates(m) == m = "docker"

NoError == <<>>

Raise(exc) ==
    /\ error' = exc
    /\ pc' = "cleanup"

Enter(phase) == phases' = Append(phases, phase)

\* where a run goes when a 'run.before' handler raises: the event is
\* triggered before the try block of the run, so the executor is not called
\* and 'run.finally' is not triggered
after_before_run_raised == "end"

\* register_executor('docker', executor.run): the executor a mode selects
executor_entry(m) == IF m = "docker" THEN "pull" ELSE "other_executor"

\* 'run.before': before_run(e), then the dispatch to the executor
before_run ==
    /\ pc = "before_run"
    /\ IF before_run_validates(mode)
       THEN \E order \in Orders(DOMAIN task_outputs) :
              LET r == validate_task_outputs(task_outputs, order)
              IN /\ vresult' = r
                 /\ Enter("VALIDATE_OUTPUTS")
                 /\ IF r = "ok"
                    THEN pc' = executor_entry(mode) /\ error' = error
                    ELSE pc' = after_before_run_raised /\ error' = <<r>>
       ELSE /\ pc' = executor_entry(mode)
            /\ UNCHANGED <<vresult, phases, error>>
    /\ UNCHANGED <<taskVars, expandVars>>
    /\ UNCHANGED fixup_error
    /\ UNCHANGED <<task_outputs, mode, pull_image, pulls, pull_returncode, fifos, opipes,
                   launches, attached, closes, files, gcSpawned, gcWaited, returncode,
                   script_data, busybox>>
    /\ UNCHANGED <<task_inputs, ipipes, fdflags, openfds, status, active, eofs, iteration>>

\* variant: an absent pull_image key means no pull
pull_wanted_explicit(pi) == pi = "True"

\* task.get('pull_image', True)
pull_wanted(pi) == IF pi = "absent" THEN TRUE ELSE pi = "True"

\* variant: the exit code of docker pull is ignored
pull_failed_never(rc) == FALSE

\* _pull_image, line 20: 'if p.returncode != 0'
pull_failed(rc) == rc # 0

\* run, lines 215-219: _pull_image(image); rc is the exit code of docker pull
run_pull ==
    /\ pc = "pull"
    /\ IF pull_wanted(pull_image)
       THEN /\ Enter("PULL")
            /\ pulls' = pulls + 1
            /\ \E rc \in {0, 1} :
                  /\ pull_returncode' = rc
                  /\ IF pull_failed(rc)
                     THEN Raise(<<"Docker pull returned code">>)
                     ELSE pc' = "configure" /\ error' = error
       ELSE /\ pc' = "configure"
            /\ UNCHANGED <<phases, pulls, pull_returncode, error>>
    /\ UNCHANGED <<taskVars, expandVars>>
    /\ UNCHANGED fixup_error
    /\ UNCHANGED <<task_outputs, vresult, mode, pull_image, fifos, opipes,
                   launches, attached, closes, files, gcSpawned, gcWaited,
                   returncode, script_data, busybox>>
    /\ UNCHANGED <<task_inputs, ipipes, fdflags, openfds, status, active, eofs,
                   iteration>>

\* variant: every bound streaming port gets a FIFO, whatever its target
make_pipe_wanted_any_target(id, spec, bindings) ==
    spec.stream /\ id \in bindings

\* make_pipe's test for a streaming spec; every declared output is bound
\* (present in outputs) when the executor is called
make_pipe_wanted(id, spec, bindings) ==
    spec.stream /\ id \in bindings /\ spec.target = "filepath"

\* keys of the input pipe map: the path of a FIFO
PathKey(path) == [k |-> "path", v |-> path]

\* variant: the host opens an input FIFO as soon as it has made it
input_pipe_opened_at_setup(pipe) == {FifoFd(pipe)}

\* the descriptors _setup_pipes opens on an input FIFO, lines 184-186:
\* "Don't open from this side, must be opened for reading first!"
input_pipe_opened(pipe) == {}

\* os.O_RDONLY | os.O_NONBLOCK, line 192
OutputOpenFlags == {"O_RDONLY", "O_NONBLOCK"}

RECURSIVE setup_input_pipes(_, _, _, _)
\* _setup_pipes, lines 181-186: the loop over task_inputs.iteritems();
\* st is [fifos, ipipes, opipes, openfds, fdflags, err]
setup_input_pipes(ins, order, i, st) ==
    IF i > Len(order) \/ st.err # NoError
    THEN st
    ELSE LET id   == order[i]
             spec == ins[id]
         IN IF make_pipe_wanted(id, spec, DOMAIN ins)
            THEN LET path == spec_path(id, spec)
                     pipe == path_join(TEMPDIR, path)
                 IN IF startswith(path, <<"/">>)
                    THEN [st EXCEPT !.err = <<"Streaming filepaths must be relative.">>]
                    ELSE IF pipe \in st.fifos
                    THEN [st EXCEPT !.err = <<"OSError: File exists">>]
                    ELSE setup_input_pipes(ins, order, i + 1,
                           [st EXCEPT
                              !.fifos = @ \cup {pipe},
                              !.openfds = @ \cup input_pipe_opened(pipe),
                              !.ipipes = (PathKey(pipe) :> [kind |-> "fetch", port |-> id]) @@ @])
            ELSE setup_input_pipes(ins, order, i + 1, st)

RECURSIVE setup_output_pipes(_, _, _, _)
\* _setup_pipes, lines 188-193: the loop over task_outputs.iteritems();
\* st is [fifos, ipipes, opipes, openfds, fdflags, err]
setup_output_pipes(outs, order, i, st) ==
    IF i > Len(order) \/ st.err # NoError
    THEN st
    ELSE LET id   == order[i]
             spec == outs[id]
         IN IF make_pipe_wanted(id, spec, DOMAIN outs)
            THEN LET path == spec_path(id, spec)
                     pipe == path_join(TEMPDIR, path)
                 IN IF startswith(path, <<"/">>)
                    THEN [st EXCEPT !.err = <<"Streaming filepaths must be relative.">>]
                    ELSE IF pipe \in st.fifos
                    THEN [st EXCEPT !.err = <<"OSError: File exists">>]
                    ELSE setup_output_pipes(outs, order, i + 1,
                           [st EXCEPT
                              !.fifos = @ \cup {pipe},
                              !.openfds = @ \cup {FifoFd(pipe)},
                              !.fdflags = (FifoFd(pipe) :> OutputOpenFlags) @@ @,
                              !.opipes = (FifoFd(pipe) :> [kind |-> "push", port |-> id]) @@ @])
            ELSE setup_output_pipes(outs, order, i + 1, st)

\* _setup_pipes, lines 203-209: default bindings of _stdout and _stderr
std_output_pipes(outs, op) ==
    LET ids == {id \in {StdoutId, StderrId} : id \in DOMAIN outs}
        new == [key \in {IdKey(id) : id \in ids} |->
                  IF outs[key.v].stream
                  THEN [kind |-> "push", port |-> key.v]
                  ELSE [kind |-> "accumulate", port |-> key.v]]
    IN new @@ op

\* the value of the variable 'id' after the two loops of lines 181-193: the
\* key the last loop that ran at least once ended on ('id' is read at lines
\* 200-201 only when _stdin is declared, so one loop has run)
loop_id(iorder, order) ==
    IF Len(order) > 0 THEN order[Len(order)] ELSE iorder[Len(iorder)]

\* _setup_pipes, lines 196-201: the adapter of _stdin; a streaming _stdin is
\* fetched from inputs['_stdin'], a non-streaming one is held in memory and
\* built from inputs[id] and inputs[id]['data']
std_input_pipes(ins, id, st) ==
    IF StdinId \notin DOMAIN ins THEN st
    ELSE IF ins[StdinId].stream
    THEN [st EXCEPT !.ipipes = (IdKey(StdinId) :>
                        [kind |-> "stream_fetch", port |-> StdinId]) @@ @]
    ELSE IF id \notin DOMAIN ins
    THEN [st EXCEPT !.err = <<"KeyError">>]
    ELSE [st EXCEPT !.ipipes = (IdKey(StdinId) :>
                        [kind |-> "memory", port |-> id]) @@ @]

\* _setup_pipes
_setup_pipes(ins, iorder, outs, order) ==
    LET st0 == [fifos |-> {}, ipipes |-> <<>>, opipes |-> <<>>,
                openfds |-> {}, fdflags |-> <<>>, err |-> NoError]
        st1 == setup_input_pipes(ins, iorder, 1, st0)
        st2 == setup_output_pipes(outs, order, 1, st1)
        st  == IF st2.err # NoError THEN st2
               ELSE std_input_pipes(ins, loop_id(iorder, order), st2)
    IN IF st.err # NoError THEN st
       ELSE [st EXCEPT !.opipes = std_output_pipes(outs, @)]

\* run, lines 221-251: pipe setup, entrypoint and container configuration
run_configure ==
    /\ pc = "configure"
    /\ Enter("CONFIGURE")
    /\ \E iorder \in Orders(DOMAIN task_inputs) :
       \E order \in Orders(DOMAIN task_outputs) :
          LET st == _setup_pipes(task_inputs, iorder, task_outputs, order)
          IN /\ fifos' = st.fifos
             /\ ipipes' = st.ipipes
             /\ opipes' = st.opipes
             /\ openfds' = st.openfds
             /\ fdflags' = st.fdflags
             /\ IF st.err # NoError
                THEN Raise(st.err)
                ELSE pc' = "launch" /\ error' = error
    /\ UNCHANGED <<taskVars, expandVars>>
    /\ UNCHANGED fixup_error
    /\ UNCHANGED <<task_outputs, vresult, mode, pull_image, pulls, pull_returncode, launches,
                   attached, closes, files, gcSpawned, gcWaited, returncode, script_data,
                   busybox>>
    /\ UNCHANGED <<task_inputs, status, active, eofs, iteration>>

\* run, line 252: client.containers.run(image, args, **config)
run_launch ==
    /\ pc = "launch"
    /\ Enter("LAUNCH")
    /\ launches' = launches + 1
    /\ \E ok \in BOOLEAN :
          IF ok
          THEN pc' = "attach_stdout" /\ error' = error /\ status' = "running"
          ELSE Raise(<<"ContainerLaunchError">>) /\ status' = status
    /\ UNCHANGED <<taskVars, expandVars>>
    /\ UNCHANGED fixup_error
    /\ UNCHANGED <<task_outputs, vresult, mode, pull_image, pulls, pull_returncode, fifos,
                   opipes, attached, closes, files, gcSpawned, gcWaited, returncode,
                   script_data, busybox>>
    /\ UNCHANGED <<task_inputs, ipipes, fdflags, openfds, active, eofs, iteration>>

\* run, lines 258-263: stdout = container.attach_socket(...)
run_attach_stdout ==
    /\ pc = "attach_stdout"
    /\ Enter("ATTACH")
    /\ \E ok \in BOOLEAN :
          IF ok
          THEN /\ attached' = attached \cup {"stdout"}
               /\ pc' = "attach_stderr"
               /\ error' = error
          ELSE /\ attached' = attached
               /\ pc' = "finally"
               /\ error' = <<"attach_socket failed">>
    /\ UNCHANGED <<taskVars, expandVars>>
    /\ UNCHANGED fixup_error
    /\ UNCHANGED <<task_outputs, vresult, mode, pull_image, pulls, pull_returncode,
                   fifos, opipes, launches, closes, files, gcSpawned, gcWaited, returncode,
                   script_data, busybox>>
    /\ UNCHANGED <<task_inputs, ipipes, fdflags, openfds, status, active, eofs, iteration>>

\* run, lines 265-270: stderr = container.attach_socket(...)
run_attach_stderr ==
    /\ pc = "attach_stderr"
    /\ \E ok \in BOOLEAN :
          IF ok
          THEN /\ attached' = attached \cup {"stderr"}
               /\ pc' = "select_loop"
               /\ error' = error
          ELSE /\ attached' = attached
               /\ pc' = "finally"
               /\ error' = <<"attach_socket failed">>
    /\ UNCHANGED <<taskVars, expandVars>>
    /\ UNCHANGED fixup_error
    /\ UNCHANGED <<task_outputs, vresult, mode, pull_image, phases, pulls, pull_returncode,
                   fifos, opipes, launches, closes, files, gcSpawned, gcWaited, returncode,
                   script_data, busybox>>
    /\ UNCHANGED <<task_inputs, ipipes, fdflags, openfds, status, active, eofs, iteration>>

\* variant: the sockets are always served by the worker's own streams
socket_adapter_worker_only(op, id, name) ==
    [kind |-> "write_pipe", port |-> <<"sys.", name>>]

\* the adapter a socket is served by: opipes.get(id, WritePipeAdapter)
socket_adapter(op, id, name) ==
    IF IdKey(id) \in DOMAIN op THEN op[IdKey(id)]
    ELSE [kind |-> "write_pipe", port |-> <<"sys.", name>>]

\* variant: the data volume prefix is not converted to the scratch directory
output_host_path_unconverted(name, spec) ==
    LET path == spec_path(name, spec)
    IN IF ~startswith(path, <<"/">>) THEN path_join(DATA_VOLUME, path) ELSE path

\* run, lines 299-305: the host path at which a non-streaming filepath
\* output is expected
output_host_path(name, spec) ==
    LET path == spec_path(name, spec)
        abs  == IF ~startswith(path, <<"/">>)
                THEN path_join(DATA_VOLUME, path) ELSE path
    IN replace_first(abs, DATA_VOLUME, TEMPDIR)

\* the path at which the container writes a filepath output: relative paths
\* are relative to the data volume
container_path(name, spec) ==
    LET path == spec_path(name, spec)
    IN IF startswith(path, <<"/">>) THEN path
       ELSE DATA_VOLUME \o <<"/">> \o path

\* the volume binding of the container configuration, lines 236-243: the
\* host path of a container path under the data volume
volume_host_path(cpath) ==
    TEMPDIR \o SubSeq(cpath, Len(DATA_VOLUME) + 1, Len(cpath))

\* the non-streaming filepath outputs, which run() collects
CollectedOutputs ==
    {n \in DOMAIN task_outputs :
        task_outputs[n].target = "filepath" /\ ~task_outputs[n].stream}

\* the host paths at which the container may leave its output files
ExpectedFiles ==
    {volume_host_path(container_path(n, task_outputs[n])) : n \in CollectedOutputs}

\* exit_condition(), lines 272-273
exit_condition(st) == st = "terminated"

\* variant: every output may be closed by the loop
close_output_all(output) == TRUE

\* close_output(output), lines 275-276
close_output(output) == output \notin {SockFd("stdout"), SockFd("stderr")}

\* run, lines 272-284, up to the call of utils.select_loop: the sockets are
\* added to opipes, which becomes the set of outputs the loop polls
run_select_loop ==
    /\ pc = "select_loop"
    /\ Enter("STREAM")
    /\ opipes' = (SockFd("stdout") :> socket_adapter(opipes, StdoutId, "stdout"))
                 @@ (SockFd("stderr") :> socket_adapter(opipes, StderrId, "stderr"))
                 @@ opipes
    /\ active' = DOMAIN opipes'
    /\ pc' = "streaming"
    /\ UNCHANGED <<taskVars, expandVars>>
    /\ UNCHANGED fixup_error
    /\ UNCHANGED <<task_outputs, vresult, mode, pull_image, error, pulls, pull_returncode,
                   fifos, launches, attached, closes, files, gcSpawned,
                   gcWaited, returncode, script_data, busybox>>
    /\ UNCHANGED <<task_inputs, ipipes, fdflags, openfds, status, eofs, iteration>>

\* the container closes its end of an output FIFO while it runs
fifo_eof ==
    /\ pc = "streaming"
    /\ status = "running"
    /\ \E fd \in openfds \ eofs : eofs' = eofs \cup {fd}
    /\ UNCHANGED <<taskVars, expandVars>>
    /\ UNCHANGED fixup_error
    /\ UNCHANGED <<task_outputs, vresult, mode, pull_image, pc, error, phases,
                   pulls, pull_returncode, fifos, opipes, launches, attached, closes, files,
                   gcSpawned, gcWaited, returncode, script_data, busybox>>
    /\ UNCHANGED <<task_inputs, ipipes, fdflags, openfds, status, active, iteration>>

\* the container stops: the files it wrote are in the scratch directory and
\* every descriptor it wrote to is at end of file
container_exits ==
    /\ pc \in {"attach_stdout", "attach_stderr", "select_loop", "streaming"}
    /\ status = "running"
    /\ status' = "terminated"
    /\ files' \in SUBSET ExpectedFiles
    /\ eofs' = openfds \cup {SockFd(n) : n \in SockNames}
    /\ UNCHANGED <<taskVars, expandVars>>
    /\ UNCHANGED fixup_error
    /\ UNCHANGED <<task_outputs, vresult, mode, pull_image, pc, error, phases,
                   pulls, pull_returncode, fifos, opipes, launches, attached, closes,
                   gcSpawned, gcWaited, returncode, script_data, busybox>>
    /\ UNCHANGED <<task_inputs, ipipes, fdflags, openfds, active, iteration>>

\* utils.select_loop: the outputs one iteration closes and stops polling,
\* those read at end of file that close_output lets it close
select_loop_closing(act, eof) == {k \in act \cap eof : close_output(k)}

\* utils.select_loop: the loop ends when the exit condition held at the start
\* of the iteration and no closeable output is polled any more
select_loop_done(exit, remaining) ==
    exit /\ \A k \in remaining : ~close_output(k)

\* utils.select_loop: one iteration (poll, transfer, close at end of file,
\* test for the end); a key that is not a descriptor is never at end of file
select_loop_iteration ==
    /\ pc = "streaming"
    /\ LET exit      == exit_condition(status)
           closing   == select_loop_closing(active, eofs)
           remaining == active \ closing
       IN /\ active' = remaining
          /\ openfds' = openfds \ closing
          /\ closes' = [n \in SockNames |->
                          IF SockFd(n) \in closing THEN closes[n] + 1
                          ELSE closes[n]]
          /\ pc' = IF select_loop_done(exit, remaining)
                   THEN "finally" ELSE "streaming"
          /\ iteration' = IF select_loop_done(exit, remaining)
                          THEN 0 ELSE 1 - iteration
    /\ UNCHANGED <<taskVars, expandVars>>
    /\ UNCHANGED fixup_error
    /\ UNCHANGED <<task_outputs, vresult, mode, pull_image, error, phases,
                   pulls, pull_returncode, fifos, opipes, launches, attached, files, gcSpawned,
                   gcWaited, returncode, script_data, busybox>>
    /\ UNCHANGED <<task_inputs, ipipes, fdflags, status, eofs>>

\* utils.select_loop: an exception out of the loop (a poll, read or adapter
\* failure), which may or may not release the descriptors still polled
select_loop_raises ==
    /\ pc = "streaming"
    /\ \E released \in {{}, openfds} : openfds' = openfds \ released
    /\ pc' = "finally"
    /\ error' = <<"select_loop failed">>
    /\ iteration' = 0
    /\ UNCHANGED <<taskVars, expandVars>>
    /\ UNCHANGED fixup_error
    /\ UNCHANGED <<task_outputs, vresult, mode, pull_image, phases, pulls, pull_returncode,
                   fifos, opipes, launches, attached, closes, files, gcSpawned,
                   gcWaited, returncode, script_data, busybox>>
    /\ UNCHANGED <<task_inputs, ipipes, fdflags, status, active, eofs>>

\* variant: only the stdout socket is closed
finally_closes_stdout_only(name, att) == name \in att /\ name = "stdout"

\* 'if stdout: stdout.close()' / 'if stderr: stderr.close()'
finally_closes(name, att) == name \in att

\* run, lines 285-290: the finally block of the streaming section
run_finally ==
    /\ pc = "finally"
    /\ Enter("AWAIT_EXIT")
    /\ closes' = [n \in SockNames |->
                    IF finally_closes(n, attached) THEN closes[n] + 1
                    ELSE closes[n]]
    /\ IF error # NoError
       THEN pc' = "cleanup"
       ELSE pc' = "docker_gc"
    /\ UNCHANGED <<taskVars, expandVars>>
    /\ UNCHANGED fixup_error
    /\ UNCHANGED <<task_outputs, vresult, mode, pull_image, error, pulls, pull_returncode,
                   fifos, opipes, launches, attached, files, gcSpawned,
                   gcWaited, returncode, script_data, busybox>>
    /\ UNCHANGED <<task_inputs, ipipes, fdflags, openfds, status, active, eofs, iteration>>

\* run, lines 292-295: os.mkdir(gc_dir); p = _docker_gc(gc_dir)
run_docker_gc ==
    /\ pc = "docker_gc"
    /\ Enter("GC")
    /\ \E ok \in BOOLEAN :
          IF ok
          THEN /\ gcSpawned' = gcSpawned + 1
               /\ pc' = "collect"
               /\ error' = error
          ELSE /\ gcSpawned' = gcSpawned
               /\ Raise(<<"Docker GC script not found.">>)
    /\ UNCHANGED <<taskVars, expandVars>>
    /\ UNCHANGED fixup_error
    /\ UNCHANGED <<task_outputs, vresult, mode, pull_image, pulls, pull_returncode, fifos,
                   opipes, launches, attached, closes, files, gcWaited, returncode,
                   script_data, busybox>>
    /\ UNCHANGED <<task_inputs, ipipes, fdflags, openfds, status, active, eofs, iteration>>

RECURSIVE collect_loop(_, _, _, _, _)
\* run, lines 297-308: the loop over task_outputs.iteritems();
\* st is [script_data, err]
collect_loop(outs, order, i, present, st) ==
    IF i > Len(order) \/ st.err # NoError
    THEN st
    ELSE LET name == order[i]
             spec == outs[name]
         IN IF spec.target = "filepath" /\ ~spec.stream
            THEN LET path == output_host_path(name, spec)
                 IN IF path \notin present
                    THEN [st EXCEPT !.err = <<"Output filepath ">> \o path
                                            \o <<" does not exist.">>]
                    ELSE collect_loop(outs, order, i + 1, present,
                           [st EXCEPT !.script_data = (name :> path) @@ @])
            ELSE collect_loop(outs, order, i + 1, present, st)

run_collect ==
    /\ pc = "collect"
    /\ Enter("COLLECT_OUTPUTS")
    /\ \E order \in Orders(DOMAIN task_outputs) :
          LET st == collect_loop(task_outputs, order, 1, files,
                       [script_data |-> script_data, err |-> NoError])
          IN /\ script_data' = st.script_data
             /\ IF st.err # NoError
                THEN Raise(st.err)
                ELSE pc' = "gc_wait" /\ error' = error
    /\ UNCHANGED <<taskVars, expandVars>>
    /\ UNCHANGED fixup_error
    /\ UNCHANGED <<task_outputs, vresult, mode, pull_image, pulls, pull_returncode, fifos,
                   opipes, launches, attached, closes, files, gcSpawned,
                   gcWaited, returncode, busybox>>
    /\ UNCHANGED <<task_inputs, ipipes, fdflags, openfds, status, active, eofs, iteration>>

\* variant: the exit code of docker-gc is ignored
gc_failed_never(rc) == FALSE

\* 'if p.returncode != 0', line 312
gc_failed(rc) == rc # 0

\* run, lines 310-313: p.wait() and the test of p.returncode
run_gc_wait ==
    /\ pc = "gc_wait"
    /\ gcWaited' = gcWaited + 1
    /\ \E rc \in {0, 1} :
          /\ returncode' = rc
          /\ IF gc_failed(rc)
             THEN Raise(<<"Docker GC returned code">>) /\ Enter("GC_WAIT")
             ELSE /\ pc' = "cleanup"
                  /\ error' = error
                  /\ phases' = phases \o <<"GC_WAIT", "DONE">>
    /\ UNCHANGED <<taskVars, expandVars>>
    /\ UNCHANGED fixup_error
    /\ UNCHANGED <<task_outputs, vresult, mode, pull_image, pulls, pull_returncode, fifos,
                   opipes, launches, attached, closes, files, gcSpawned,
                   script_data, busybox>>
    /\ UNCHANGED <<task_inputs, ipipes, fdflags, openfds, status, active, eofs, iteration>>

\* an executor other than docker's: it returns or raises, and the run goes
\* on to 'run.finally'
run_other_executor ==
    /\ pc = "other_executor"
    /\ \E ok \in BOOLEAN :
          error' = IF ok THEN error ELSE <<"executor raised">>
    /\ pc' = "cleanup"
    /\ UNCHANGED <<taskVars, expandVars>>
    /\ UNCHANGED <<task_outputs, vresult, mode, pull_image, phases, pulls, pull_returncode,
                   fifos, opipes, launches, attached, closes, files, gcSpawned,
                   gcWaited, returncode, script_data, busybox, fixup_error>>
    /\ UNCHANGED <<task_inputs, ipipes, fdflags, openfds, status, active, eofs, iteration>>

\* cleanup's test, line 17; kwargs holds '_tempdir' in every run
cleanup_wanted(m) == m = "docker"

\* variant: a failure of the permission-fixup container is not raised again
fixup_reraised_never(exc) == NoError

\* cleanup, lines 34-38: the exception that leaves cleanup when
\* containers.run('busybox') raised exc (NoError: it returned)
fixup_reraised(exc) == exc

\* 'run.finally': cleanup(e) runs the permission-fixup container
cleanup ==
    /\ pc = "cleanup"
    /\ IF cleanup_wanted(mode)
       THEN /\ busybox' = busybox + 1
            /\ \E exc \in {NoError, <<"busybox failed">>} :
                  /\ fixup_error' = exc
                  /\ error' = IF fixup_reraised(exc) # NoError
                              THEN fixup_reraised(exc) ELSE error
       ELSE UNCHANGED <<busybox, fixup_error, error>>
    /\ pc' = "end"
    /\ UNCHANGED <<taskVars, expandVars>>
    /\ UNCHANGED <<task_outputs, vresult, mode, pull_image, phases, pulls, pull_returncode,
                   fifos, opipes, launches, attached, closes, files, gcSpawned,
                   gcWaited, returncode, script_data>>
    /\ UNCHANGED <<task_inputs, ipipes, fdflags, openfds, status, active, eofs, iteration>>

RunInit ==
    /\ task_outputs \in RunOutputMaps
    /\ vresult = "pending"
    /\ mode \in Modes
    /\ pull_image \in {"True", "False", "absent"}
    /\ pc = "before_run"
    /\ error = NoError
    /\ phases = <<>>
    /\ pulls = 0
    /\ pull_returncode = -1
    /\ fifos = {}
    /\ opipes = <<>>
    /\ launches = 0
    /\ attached = {}
    /\ closes = [n \in SockNames |-> 0]
    /\ files = {}
    /\ gcSpawned = 0
    /\ gcWaited = 0
    /\ returncode = -1
    /\ script_data = <<>>
    /\ busybox = 0
    /\ fixup_error = NoError
    /\ task_inputs \in RunInputMaps
    /\ ipipes = <<>>
    /\ fdflags = <<>>
    /\ openfds = {}
    /\ status = "absent"
    /\ active = {}
    /\ eofs = {}
    /\ iteration = 0

RunIdle ==
    /\ mode = "idle"
    /\ pull_image = "absent"
    /\ pc = "idle"
    /\ error = NoError
    /\ phases = <<>>
    /\ pulls = 0
    /\ pull_returncode = -1
    /\ fifos = {}
    /\ opipes = <<>>
    /\ launches = 0
    /\ attached = {}
    /\ closes = [n \in SockNames |-> 0]
    /\ files = {}
    /\ gcSpawned = 0
    /\ gcWaited = 0
    /\ returncode = -1
    /\ script_data = <<>>
    /\ busybox = 0
    /\ fixup_error = NoError
    /\ task_inputs = <<>>
    /\ ipipes = <<>>
    /\ fdflags = <<>>
    /\ openfds = {}
    /\ status = "absent"
    /\ active = {}
    /\ eofs = {}
    /\ iteration = 0

RunNext ==
    \/ before_run
    \/ run_pull
    \/ run_configure
    \/ run_launch
    \/ run_attach_stdout
    \/ run_attach_stderr
    \/ run_select_loop
    \/ fifo_eof
    \/ container_exits
    \/ select_loop_iteration
    \/ select_loop_raises
    \/ run_finally
    \/ run_docker_gc
    \/ run_collect
    \/ run_gc_wait
    \/ run_other_executor
    \/ cleanup

-----------------------------------------------------------------------------
(* Expansion of the container arguments: _transform_path and _expand_args. *)
(* A string is a sequence of pieces; "$input{", "$flag{" and "}" are       *)
(* pieces of their own.                                                    *)

InputOpen == "$input{"
FlagOpen == "$flag{"
Close == "}"

\* '$input{%s}' % inputId and '$flag{%s}' % inputId
input_token(id) == <<InputOpen>> \o id \o <<Close>>
flag_token(id) == <<FlagOpen>> \o id \o <<Close>>

RECURSIVE findall(_, _, _)
\* re.findall(r'\$input\{([^}]+)\}', arg) and the same for $flag: the ids of
\* the matches found from piece i on, left to right, without overlap
findall(open, arg, i) ==
    IF i > Len(arg) THEN <<>>
    ELSE LET j == IF arg[i] = open THEN find_from(arg, <<Close>>, i + 1) ELSE 0
         IN IF j > i + 1
            THEN <<SubSeq(arg, i + 1, j - 1)>> \o findall(open, arg, j + 1)
            ELSE findall(open, arg, i + 1)

RECURSIVE replace_all(_, _, _)
\* str.replace(old, new): every occurrence, left to right, without overlap
replace_all(str, old, new) ==
    LET i == find_from(str, old, 1)
    IN IF i = 0 THEN str
       ELSE SubSeq(str, 1, i - 1) \o new
            \o replace_all(SubSeq(str, i + Len(old), Len(str)), old, new)

\* os.path.relpath(path, start) for absolute, normalised paths; start is the
\* scratch directory, two levels below the root
relpath(path, start) ==
    IF startswith(path, start \o <<"/">>)
    THEN SubSeq(path, Len(start) + 2, Len(path))
    ELSE IF path = start THEN <<".">>
    ELSE <<"..", "/", "..">> \o path

\* _transform_path, lines 40-54; the result is [err, val]
_transform_path(ins, tis, inputId, tmpDir) ==
    IF inputId \in DOMAIN tis
    THEN IF tis[inputId].target = "filepath"
         THEN [err |-> NoError,
               val |-> path_join(DATA_VOLUME, relpath(ins[inputId].s, tmpDir))]
         ELSE [err |-> NoError, val |-> ins[inputId].s]
    ELSE [err |-> <<"No task input found with id = ">> \o inputId, val |-> <<>>]

RECURSIVE expand_inputs(_, _, _, _, _)
\* _expand_args, lines 70-76: the loop over the $input ids found in the
\* argument; st is [arg, err]
expand_inputs(ids, i, ins, tis, st) ==
    IF i > Len(ids) \/ st.err # NoError
    THEN st
    ELSE LET inputId == ids[i]
         IN IF inputId \in DOMAIN ins
            THEN LET transformed == _transform_path(ins, tis, inputId, TEMPDIR)
                 IN IF transformed.err # NoError
                    THEN [st EXCEPT !.err = transformed.err]
                    ELSE expand_inputs(ids, i + 1, ins, tis,
                           [st EXCEPT !.arg = replace_all(@, input_token(inputId),
                                                          transformed.val)])
            ELSE IF inputId = <<"_tempdir">>
            THEN expand_inputs(ids, i + 1, ins, tis,
                   [st EXCEPT !.arg = replace_all(@, input_token(<<"_tempdir">>),
                                                  DATA_VOLUME)])
            ELSE expand_inputs(ids, i + 1, ins, tis, st)

\* taskInputs[inputId].get('arg', inputId)
port_arg(ti, inputId) == IF ti.has_arg THEN ti.arg ELSE inputId

RECURSIVE expand_flags(_, _, _, _, _)
\* _expand_args, lines 77-82: the loop over the $flag ids found in the
\* argument after the $input substitutions; st is [arg, err]
expand_flags(ids, i, ins, tis, st) ==
    IF i > Len(ids) \/ st.err # NoError
    THEN st
    ELSE LET inputId == ids[i]
         IN IF inputId \in DOMAIN ins /\ ins[inputId].truthy
            THEN IF inputId \notin DOMAIN tis
                 THEN [st EXCEPT !.err = <<"KeyError: ">> \o inputId]
                 ELSE expand_flags(ids, i + 1, ins, tis,
                        [st EXCEPT !.arg = replace_all(@, flag_token(inputId),
                                                       port_arg(tis[inputId], inputId))])
            ELSE expand_flags(ids, i + 1, ins, tis,
                   [st EXCEPT !.arg = replace_all(@, flag_token(inputId), <<>>)])

\* _expand_args, lines 69-82: the expansion of one argument
expand_arg(arg, ins, tis) ==
    LET st1 == expand_inputs(findall(InputOpen, arg, 1), 1, ins, tis,
                             [arg |-> arg, err |-> NoError])
    IN IF st1.err # NoError THEN st1
       ELSE expand_flags(findall(FlagOpen, st1.arg, 1), 1, ins, tis, st1)

RECURSIVE expand_loop(_, _, _, _, _)
\* _expand_args, lines 69-85: the loop over args; st is [newArgs, err]
expand_loop(as, i, ins, tis, st) ==
    IF i > Len(as) \/ st.err # NoError
    THEN st
    ELSE LET r == expand_arg(as[i], ins, tis)
         IN IF r.err # NoError THEN [st EXCEPT !.err = r.err]
            ELSE expand_loop(as, i + 1, ins, tis,
                   IF r.arg # <<>>
                   THEN [st EXCEPT !.newArgs = Append(@, r.arg)]
                   ELSE st)

\* _expand_args(args, inputs, taskInputs, tmpDir), lines 57-87
_expand_args(as, ins, tis) ==
    expand_loop(as, 1, ins, tis, [newArgs |-> <<>>, err |-> NoError])

\* most substitution forms and literals in one template
MaxParts == 2
\* most templates in container_args
MaxArgs == 2

\* the pieces templates are made of
TemplateParts ==
    {<<"-v">>, input_token(<<"a">>), input_token(<<"b">>),
     input_token(<<"_tempdir">>), flag_token(<<"b">>)}

RECURSIVE Concats(_)
\* the strings made of exactly n template parts
Concats(n) ==
    IF n = 0 THEN {<<>>}
    ELSE {t \o part : t \in Concats(n - 1), part \in TemplateParts}

Templates == UNION {Concats(n) : n \in 1..MaxParts}

RECURSIVE ArgLists(_)
\* the lists of exactly n templates
ArgLists(n) ==
    IF n = 0 THEN {<<>>}
    ELSE {Append(as, t) : as \in ArgLists(n - 1), t \in Templates}

ContainerArgs == UNION {ArgLists(n) : n \in 0..MaxArgs}

\* values of inputs: s is str(value), truthy its truth value
StrValue(s) == [s |-> s, truthy |-> s # <<>>]
FalseValue == [s |-> <<"False">>, truthy |-> FALSE]

\* the resolved inputs and their ports: 'a' is a plain string (which may
\* read like a template) or a file fetched into the scratch directory, 'b'
\* is a string or a boolean, '_tempdir' is an input a task may declare
InputsOfA ==
    {[ins |-> <<>>, tis |-> <<>>]}
    \cup {[ins |-> (<<"a">> :> StrValue(v)),
           tis |-> (<<"a">> :> [target |-> None, has_arg |-> FALSE, arg |-> <<>>])] :
             v \in {<<"x">>, flag_token(<<"b">>)}}
    \cup {[ins |-> (<<"a">> :> StrValue(TEMPDIR \o <<"/", "file.txt">>)),
           tis |-> (<<"a">> :> [target |-> "filepath", has_arg |-> FALSE, arg |-> <<>>])]}
InputsOfB ==
    {[ins |-> <<>>, tis |-> <<>>]}
    \cup {[ins |-> (<<"b">> :> v),
           tis |-> (<<"b">> :> [target |-> None, has_arg |-> TRUE, arg |-> <<"--bar">>])] :
             v \in {StrValue(<<"y">>), FalseValue}}
InputsOfTempdir ==
    {[ins |-> <<>>, tis |-> <<>>],
     [ins |-> (<<"_tempdir">> :> StrValue(<<"z">>)), tis |-> <<>>],
     [ins |-> (<<"_tempdir">> :> StrValue(<<"z">>)),
      tis |-> (<<"_tempdir">> :> [target |-> None, has_arg |-> FALSE, arg |-> <<>>])]}

ResolvedInputs ==
    {[ins |-> a.ins @@ b.ins @@ t.ins, tis |-> a.tis @@ b.tis @@ t.tis] :
        a \in InputsOfA, b \in InputsOfB, t \in InputsOfTempdir}

ExpandInit ==
    /\ container_args \in ContainerArgs
    /\ \E r \in ResolvedInputs : inputs = r.ins /\ taskInputs = r.tis
    /\ epc = "expand"
    /\ args = <<>>
    /\ expand_error = NoError

ExpandIdle ==
    /\ container_args = <<>>
    /\ inputs = <<>>
    /\ taskInputs = <<>>
    /\ epc = "idle"
    /\ args = <<>>
    /\ expand_error = NoError

\* run, line 222: args = _expand_args(task.get('container_args', []), ...)
run_expand_args ==
    /\ epc = "expand"
    /\ LET r == _expand_args(container_args, inputs, taskInputs)
       IN /\ args' = r.newArgs
          /\ expand_error' = r.err
          /\ epc' = IF r.err # NoError THEN "raised" ELSE "expanded"
    /\ UNCHANGED <<container_args, inputs, taskInputs>>
    /\ UNCHANGED <<taskVars, valVars, runVars>>

\* run, line 252: client.containers.run(image, args, **config)
run_launch_args ==
    /\ epc = "expanded"
    /\ epc' = "launched"
    /\ UNCHANGED <<container_args, inputs, taskInputs, args, expand_error>>
    /\ UNCHANGED <<taskVars, valVars, runVars>>

ExpandNext ==
    \/ run_expand_args
    \/ run_launch_args

-----------------------------------------------------------------------------
(* Properties of the Task model *)

\* the last operation was a set_input call that named an undeclared port
NamedUnknownPort ==
    /\ lastOp = "set_input"
    /\ \E n \in DOMAIN lastKw : n \notin TaskInputPorts

\* C1: a set_input call that names at least one undeclared port raises the
\* invalid-port error and leaves the input cache and the dirty flag as they
\* were before the call, also when the call names declared ports too.
C1_UnknownPortNoEffect ==
    NamedUnknownPort =>
        /\ raised
        /\ input_data = preInput
        /\ property_get(PropState(dirty)) = preDirty

\* no two get_output calls of one output returned different values
SameReturns == \A n \in TaskOutputPorts : Cardinality(getRets[n]) <= 1

\* C2 (as stated): get_output calls with no set_input between them invoke
\* run() at most once in total and return the same value.
C2_OncePerBind == getRuns <= 1 /\ SameReturns

\* C2 (amended): get_output calls with no set_input and no assignment of
\* True to dirty between them invoke run() at most once in total and return
\* the same value.
C2_OncePerInvalidation == cleanRuns <= 1 /\ SameReturns

\* two get_output calls in one such stretch, the first of which ran the task
C2_Witness == cleanCalls = 2 /\ cleanRuns = 1 /\ lastOp = "get_output"

\* the last operation was a set_input that returned, on a task that was clean
BoundOnClean == lastOp = "set_input" /\ ~raised /\ ~preDirty

\* C3 (as stated): after a successful set_input on a task whose dirty flag is
\* false the observable dirty flag is true, and a get_output of a declared
\* output that follows invokes run() exactly once.
C3_BindMarksDirty ==
    [][ /\ BoundOnClean' => property_get(PropState(dirty'))
        /\ (BoundOnClean /\ lastOp' = "get_output" /\ ~raised') => opRuns' = 1
      ]_vars

\* C3 (amended): the same for a successful set_input that names at least one
\* port; a set_input call without arguments leaves the flag as it was.
C3_NonEmptyBindMarksDirty ==
    [][ /\ (BoundOnClean' /\ DOMAIN lastKw' # {})
            => property_get(PropState(dirty'))
        /\ (BoundOnClean /\ DOMAIN lastKw # {}
                /\ lastOp' = "get_output" /\ ~raised') => opRuns' = 1
      ]_vars

\* a bind of at least one port on a clean task has returned
C3_Witness == BoundOnClean /\ DOMAIN lastKw # {} /\ dirty

\* C4: after a successful set_input that binds a plain value v to a declared
\* input port p, the input cache holds v for p (get_input(p) returns v).
C4_BindStoresValue ==
    (lastOp = "set_input" /\ ~raised) =>
        \A p \in DOMAIN lastKw :
            lastKw[p] \in PlainValues =>
                p \in DOMAIN input_data /\ input_data[p] = lastKw[p]

\* C5: assigning True to dirty when it is already true fires no _reset; any
\* operation fires _reset at most once, only on a false-to-true change, and
\* the notification does not recurse past the limit.
C5_NoRedundantPropagation ==
    /\ ~overflow
    /\ resets <= 1
    /\ resets = 1 => (lastOp = "dirty_assign" /\ assigned /\ ~preDirty)
    /\ (lastOp = "dirty_assign" /\ assigned /\ preDirty) => resets = 0

\* dirty was assigned True while it was already true
C5_Witness == lastOp = "dirty_assign" /\ assigned /\ preDirty /\ dirty

\* C6: when get_output returns a value of the output cache the dirty flag is
\* false.
C6_NoReadWhileDirty ==
    (lastOp = "get_output" /\ ~raised) => ~property_get(PropState(dirty))

\* get_output returned on a task that was dirty when it was called
C6_Witness == lastOp = "get_output" /\ ~raised /\ preDirty /\ opRuns = 1

-----------------------------------------------------------------------------
(* Properties of validate_task_outputs *)

\* an absolute path lies under the mount root when it continues the mount
\* root after a separator
UnderMountRoot(path) == startswith(path, DATA_VOLUME \o <<"/">>)

IsAbsolute(path) == Len(path) > 0 /\ path[1] = "/"

\* the declared outputs the claim calls acceptable
AcceptableOutputs(outs) ==
    /\ \A name \in DOMAIN outs :
          name \in {StdoutId, StderrId} \/ outs[name].target = "filepath"
    /\ \A name \in DOMAIN outs :
          (outs[name].target = "filepath"
             /\ IsAbsolute(spec_path(name, outs[name])))
          => UnderMountRoot(spec_path(name, outs[name]))

\* C7: validate_task_outputs accepts exactly when every output is _stdout,
\* _stderr or a filepath output and every absolute filepath output path
\* (explicit path, else the id) lies under the mount root; otherwise it
\* raises TaskSpecValidationError.
C7_ValidateExact ==
    vresult \in {"ok", "TaskSpecValidationError"} =>
        (vresult = "ok" <=> AcceptableOutputs(task_outputs))

\* a set of two outputs with an absolute path under the mount root accepted
C7_Witness ==
    /\ vresult = "ok"
    /\ Cardinality(DOMAIN task_outputs) = 2
    /\ \E name \in DOMAIN task_outputs :
          /\ task_outputs[name].target = "filepath"
          /\ IsAbsolute(spec_path(name, task_outputs[name]))

-----------------------------------------------------------------------------
(* Properties of a run *)

ValidationRaised == <<"TaskSpecValidationError">>

\* C8: a docker-mode run whose declared outputs are invalid pulls no image,
\* creates no FIFO, launches no container and spawns no garbage collection;
\* it ends with the validation error.
C8_InvalidOutputsNoSideEffects ==
    (mode = "docker" /\ ~AcceptableOutputs(task_outputs)) =>
        /\ pulls = 0
        /\ fifos = {}
        /\ launches = 0
        /\ gcSpawned = 0
        /\ pc \in {"before_run", "end"}
        /\ pc = "end" => error = ValidationRaised

\* a run with invalid outputs has ended with the validation error
C8_Witness ==
    /\ mode = "docker"
    /\ ~AcceptableOutputs(task_outputs)
    /\ pc = "end"
    /\ error = ValidationRaised

\* the executor has returned normally
Completed == Len(phases) > 0 /\ phases[Len(phases)] = "DONE"

PullPhase == IF pull_image = "False" THEN <<>> ELSE <<"PULL">>

NotGcWait(ph) == ph # "GC_WAIT"

\* C9 (as stated): in a run that completes the phases are entered in the
\* order VALIDATE_OUTPUTS, PULL (unless pull_image is false), CONFIGURE,
\* LAUNCH, ATTACH, STREAM, AWAIT_EXIT, COLLECT_OUTPUTS, GC, DONE.
C9_PhaseOrder ==
    Completed =>
        SelectSeq(phases, NotGcWait) =
            <<"VALIDATE_OUTPUTS">> \o PullPhase \o
            <<"CONFIGURE", "LAUNCH", "ATTACH", "STREAM", "AWAIT_EXIT",
              "COLLECT_OUTPUTS", "GC", "DONE">>

\* C9 (amended): in a run that completes the phases are entered in the order
\* VALIDATE_OUTPUTS, PULL (unless pull_image is false), CONFIGURE, LAUNCH,
\* ATTACH, STREAM, AWAIT_EXIT, GC (the job is spawned), COLLECT_OUTPUTS, the
\* wait for the GC job, DONE.
C9_PhaseOrderGcFirst ==
    Completed =>
        phases =
            <<"VALIDATE_OUTPUTS">> \o PullPhase \o
            <<"CONFIGURE", "LAUNCH", "ATTACH", "STREAM", "AWAIT_EXIT",
              "GC", "COLLECT_OUTPUTS", "GC_WAIT", "DONE">>

\* a run without an explicit pull_image has completed
C9_Witness == Completed /\ pull_image = "absent" /\ pc = "end" /\ error = NoError

\* the executor has returned or raised
RunExited == pc \in {"cleanup", "end"}

\* C10: when run() has returned or raised after the launch, every socket that
\* was attached has been closed exactly once, and no socket is ever closed
\* twice.
C10_SocketsClosedOnce ==
    /\ \A n \in SockNames : closes[n] <= 1
    /\ RunExited =>
          \A n \in SockNames : n \in attached => closes[n] = 1

\* run() raised out of the select loop with both sockets closed
C10_Witness ==
    /\ pc = "cleanup"
    /\ error = <<"select_loop failed">>
    /\ attached = SockNames
    /\ \A n \in SockNames : closes[n] = 1

\* C11: on every exit path of run() (normal return, or an exception at
\* launch, attach, streaming, output collection or garbage collection), every
\* host-side descriptor opened on an output FIFO during pipe setup has been
\* closed by the time run() returns or raises.
C11_FifoDescriptorsClosed == (RunExited /\ launches > 0) => openfds = {}

\* the run entered the streaming section
Streamed == \E i \in DOMAIN phases : phases[i] = "STREAM"

\* C12: in every run, whether it returns or raises (a failure during
\* streaming and a missing declared output included), the garbage-collection
\* job is spawned exactly once and has been waited for before run() returns
\* or raises.
C12_GcOnceAndAwaited ==
    (RunExited /\ Streamed) => (gcSpawned = 1 /\ gcWaited = 1)

GcError == <<"Docker GC returned code">>

\* C13: when the garbage-collection job exits non-zero after every declared
\* output was collected, run() raises, and the payloads recorded before the
\* wait are still there, unchanged, for every collected output.
C13_GcFailureKeepsPayloads ==
    [][(pc = "gc_wait" /\ gcWaited' = gcWaited + 1 /\ returncode' # 0) =>
          /\ pc' = "cleanup"
          /\ error' = GcError
          /\ script_data' = script_data
          /\ \A n \in CollectedOutputs : n \in DOMAIN script_data']_vars

C13_Witness ==
    /\ pc = "cleanup"
    /\ error = GcError
    /\ returncode = 1
    /\ Cardinality(DOMAIN script_data) = 2

\* the expected host path of an output: its explicit path, else its id,
\* relative to the mount root, re-rooted under the scratch directory
ExpectedHostPath(n) == volume_host_path(container_path(n, task_outputs[n]))

MissingOutputs == {n \in CollectedOutputs : ExpectedHostPath(n) \notin files}

NotExistError(path) == <<"Output filepath ">> \o path \o <<" does not exist.">>

\* C14: for every non-streaming filepath output: if no file exists at its
\* expected host path after the container exits, run() raises an error
\* naming that host path; otherwise that host path is recorded as the
\* output's payload.
C14_EachOutputSettled ==
    [][(pc = "collect" /\ pc' # "collect") =>
          \A n \in CollectedOutputs :
             IF n \in MissingOutputs
             THEN pc' = "cleanup" /\ error' = NotExistError(ExpectedHostPath(n))
             ELSE /\ n \in DOMAIN script_data'
                  /\ script_data'[n] = ExpectedHostPath(n)]_vars

\* C14, amended: when the file of some non-streaming filepath output is
\* missing, run() raises an error naming the expected host path of one
\* missing output and has recorded payloads only for outputs whose file
\* exists; when none is missing, the expected host path of every such output
\* is recorded as its payload.
C14_FirstMissingRaises ==
    [][(pc = "collect" /\ pc' # "collect") =>
          /\ \A n \in DOMAIN script_data' :
                /\ n \in CollectedOutputs \ MissingOutputs
                /\ script_data'[n] = ExpectedHostPath(n)
          /\ IF MissingOutputs # {}
             THEN /\ pc' = "cleanup"
                  /\ \E n \in MissingOutputs :
                        error' = NotExistError(ExpectedHostPath(n))
             ELSE /\ pc' = "gc_wait"
                  /\ error' = NoError
                  /\ DOMAIN script_data' = CollectedOutputs]_vars

C14_Witness ==
    /\ pc = "cleanup"
    /\ Cardinality(CollectedOutputs) = 2
    /\ Cardinality(MissingOutputs) = 1
    /\ Cardinality(DOMAIN script_data) = 1
    /\ \E n \in MissingOutputs : error = NotExistError(ExpectedHostPath(n))

\* the descriptors of the attached sockets
Sockets == {SockFd(n) : n \in SockNames}

\* C18: the select loop is left normally only when the container has been
\* observed terminated and no closeable output is still polled; the attached
\* stdout and stderr sockets are never counted as closeable: the loop does
\* not wait for them and does not remove them.
C18_LoopExit ==
    [][/\ (pc = "streaming" /\ pc' = "finally" /\ error' = NoError) =>
             (status = "terminated" /\ active' = Sockets)
       /\ pc' = "streaming" => Sockets \subseteq active']_vars

C18_Witness ==
    /\ pc = "finally"
    /\ error = NoError
    /\ status = "terminated"
    /\ active = Sockets
    /\ Cardinality(DOMAIN opipes) = 4

StreamingPorts(ports) ==
    {id \in DOMAIN ports : ports[id].stream /\ ports[id].target = "filepath"}

\* the FIFO of a port: its path, else its id, in the scratch directory
FifoOf(id, ports) ==
    TEMPDIR \o <<"/">> \o (IF ports[id].path = NoPath THEN id ELSE ports[id].path)

\* C20: at the moment the container is launched, a FIFO exists in the
\* scratch directory for every bound streaming filepath port, every output
\* FIFO has been opened by the host for non-blocking reading, and no input
\* FIFO has been opened by the host.
C20_PipesReadyAtLaunch ==
    pc = "launch" =>
        /\ \A id \in StreamingPorts(task_inputs) :
              /\ FifoOf(id, task_inputs) \in fifos
              /\ FifoFd(FifoOf(id, task_inputs)) \notin openfds
        /\ \A id \in StreamingPorts(task_outputs) :
              /\ FifoOf(id, task_outputs) \in fifos
              /\ FifoFd(FifoOf(id, task_outputs)) \in openfds
              /\ fdflags[FifoFd(FifoOf(id, task_outputs))]
                    = {"O_RDONLY", "O_NONBLOCK"}

C20_Witness ==
    /\ pc = "launch"
    /\ StreamingPorts(task_inputs) # {}
    /\ Cardinality(StreamingPorts(task_outputs)) = 2

\* the FIFOs of the bound streaming filepath ports with a relative path
PortFifos(ports) ==
    {FifoOf(id, ports) :
        id \in {i \in StreamingPorts(ports) : ~startswith(ports[i].path, <<"/">>)}}

\* some streaming filepath port has an absolute path
AbsoluteStreamingPath ==
    \/ \E id \in StreamingPorts(task_inputs) :
          startswith(task_inputs[id].path, <<"/">>)
    \/ \E id \in StreamingPorts(task_outputs) :
          startswith(task_outputs[id].path, <<"/">>)

\* pipe setup has returned normally
PipesSetUp == pc = "launch" \/ launches > 0

PullDecided ==
    mode = "docker" /\ vresult = "ok" /\ pc \notin {"before_run", "pull"}

PullError == <<"Docker pull returned code">>

\* C22: the image pull runs exactly when pull_image is true or absent, and
\* when the pull exits non-zero run() raises, no FIFO is created, no
\* container is launched and no garbage-collection job is spawned.
C22_PullStep ==
    /\ PullDecided =>
          pulls = (IF pull_image \in {"True", "absent"} THEN 1 ELSE 0)
    /\ pull_returncode \notin {-1, 0} =>
          /\ RunExited
          /\ pc = "cleanup" => error = PullError
          /\ fifos = {} /\ launches = 0 /\ gcSpawned = 0

C22_Witness ==
    /\ pc = "cleanup"
    /\ pull_image = "absent"
    /\ pull_returncode = 1
    /\ error = PullError
    /\ StreamingPorts(task_outputs) # {}

\* the output id of a standard stream of the container
StdId(n) == IF n = "stdout" THEN StdoutId ELSE StderrId

\* the worker's own stdout or stderr
WorkerStream(n) == [kind |-> "write_pipe", port |-> <<"sys.", n>>]

\* C23: for each of the container's standard output and standard error, the
\* bytes read from the attached socket go to exactly one sink: the
\* accumulating output payload when that stream is a declared and bound
\* non-streaming output, and the worker's own stdout or stderr otherwise.
C23_SocketSinks ==
    pc = "streaming" =>
        \A n \in SockNames :
           opipes[SockFd(n)] =
              IF StdId(n) \in DOMAIN task_outputs /\ ~task_outputs[StdId(n)].stream
              THEN [kind |-> "accumulate", port |-> StdId(n)]
              ELSE WorkerStream(n)

\* C23, amended: the sink is the accumulating output payload when the stream
\* is a declared and bound non-streaming output, the push adapter of its
\* binding when it is a declared and bound streaming output, and the
\* worker's own stdout or stderr when it is not declared.
C23_SocketSinksWithStreaming ==
    pc = "streaming" =>
        \A n \in SockNames :
           opipes[SockFd(n)] =
              IF StdId(n) \notin DOMAIN task_outputs THEN WorkerStream(n)
              ELSE IF task_outputs[StdId(n)].stream
              THEN [kind |-> "push", port |-> StdId(n)]
              ELSE [kind |-> "accumulate", port |-> StdId(n)]

C23_Witness ==
    /\ pc = "streaming"
    /\ StdoutId \in DOMAIN task_outputs
    /\ task_outputs[StdoutId].stream
    /\ StderrId \in DOMAIN task_outputs
    /\ opipes[SockFd("stdout")].kind = "push"
    /\ opipes[SockFd("stderr")].kind = "accumulate"

\* pipe setup has gone past its two loops without raising
StdinReached ==
    /\ \E i \in DOMAIN phases : phases[i] = "CONFIGURE"
    /\ pc # "configure"
    /\ error \notin {<<"Streaming filepaths must be relative.">>,
                     <<"OSError: File exists">>}

\* C24: when _stdin is a declared, bound, non-streaming input, the in-memory
\* adapter registered for it is built from the binding and the data of the
\* _stdin input itself, for every combination of other declared inputs and
\* outputs.
C24_StdinAdapterOwnBinding ==
    (/\ StdinReached
     /\ StdinId \in DOMAIN task_inputs
     /\ ~task_inputs[StdinId].stream)
       => /\ IdKey(StdinId) \in DOMAIN ipipes
          /\ ipipes[IdKey(StdinId)] = [kind |-> "memory", port |-> StdinId]

\* C26: in every docker-mode run the permission-fixup container is run
\* exactly once, and not before the executor has returned or raised (so after
\* the main container), also when the run itself raised; a failure of the
\* fixup container is raised again to the caller.
C26_FixupOncePerRun ==
    /\ (mode = "docker" /\ pc = "end") => busybox = 1
    /\ (mode = "docker" /\ pc # "end") => busybox = 0
    /\ fixup_error # NoError => error = fixup_error

\* C26, amended: the same for the docker-mode runs whose outputs passed the
\* validation before the run; a run the validation rejected ends without
\* the fixup container (and without the main container).
C26_FixupOncePerExecutorCall ==
    /\ (mode = "docker" /\ pc = "end") =>
          busybox = (IF vresult = "ok" THEN 1 ELSE 0)
    /\ (mode = "docker" /\ pc # "end") => busybox = 0
    /\ fixup_error # NoError => error = fixup_error

C26_Witness ==
    /\ mode = "docker"
    /\ pc = "end"
    /\ launches = 1
    /\ ~Completed
    /\ busybox = 1
    /\ fixup_error # NoError
    /\ error = fixup_error

\* the descriptors the host holds open: those of the output FIFOs and those
\* of the attached sockets
OpenDescriptors == openfds \cup {SockFd(n) : n \in attached}

\* C27: when the select loop starts, every key of the output map handed to
\* it is an open descriptor, that of an output FIFO or of an attached
\* socket; no placeholder key such as '_stdout' or '_stderr' is among them.
C27_OutputKeysAreDescriptors ==
    [][run_select_loop => (DOMAIN opipes' \subseteq OpenDescriptors')]_vars

-----------------------------------------------------------------------------
(* Properties of the argument expansion *)

\* _expand_args has returned or raised
Expanded == epc \in {"expanded", "launched", "raised"}

\* the ids the templates name in a $input{...} form
InputRefs ==
    UNION {LET ids == findall(InputOpen, container_args[i], 1)
           IN {ids[k] : k \in DOMAIN ids} : i \in DOMAIN container_args}

TempdirId == <<"_tempdir">>

\* the reference value of $input{id}
RefInput(id) ==
    IF id = TempdirId THEN DATA_VOLUME
    ELSE IF taskInputs[id].target = "filepath"
    THEN DATA_VOLUME \o SubSeq(inputs[id].s, Len(TEMPDIR) + 1, Len(inputs[id].s))
    ELSE inputs[id].s

\* the reference value of $flag{id}
RefFlag(id) ==
    IF id \in DOMAIN inputs /\ inputs[id].truthy THEN taskInputs[id].arg
    ELSE <<>>

RECURSIVE RefExpand(_, _)
\* the reference expansion of one template from piece i on: one pass from
\* left to right, each form replaced where it stands
RefExpand(arg, i) ==
    IF i > Len(arg) THEN <<>>
    ELSE LET j == IF arg[i] \in {InputOpen, FlagOpen}
                  THEN find_from(arg, <<Close>>, i + 1) ELSE 0
         IN IF j > i + 1
            THEN (IF arg[i] = InputOpen THEN RefInput(SubSeq(arg, i + 1, j - 1))
                  ELSE RefFlag(SubSeq(arg, i + 1, j - 1)))
                 \o RefExpand(arg, j + 1)
            ELSE <<arg[i]>> \o RefExpand(arg, i + 1)

RECURSIVE RefArgs(_)
\* the reference expansion of container_args from template i on, the empty
\* results left out
RefArgs(i) ==
    IF i > Len(container_args) THEN <<>>
    ELSE LET e == RefExpand(container_args[i], 1)
         IN (IF e = <<>> THEN <<>> ELSE <<e>>) \o RefArgs(i + 1)

\* every $input id of the templates is a resolved input, or the reserved
\* _tempdir of a task that has no input of that name
Resolvable ==
    /\ TempdirId \notin DOMAIN inputs
    /\ InputRefs \subseteq (DOMAIN inputs \cup {TempdirId})

\* C15: the expanded list equals the reference expansion: each $input{id}
\* replaced by the input's value (a filepath input by its scratch-relative
\* path under the mount root), each $flag{id} by the port's arg string when
\* the input is present and truthy and by the empty string otherwise, empty
\* arguments removed, order preserved.
C15_ExpansionIsReference ==
    (Expanded /\ Resolvable) => (epc # "raised" /\ args = RefArgs(1))

\* the $input ids of the templates that are neither resolved inputs nor the
\* reserved _tempdir
UnresolvedRefs == {id \in InputRefs : id \notin DOMAIN inputs /\ id # TempdirId}

\* C16: expanding a template with $input{id} for an id absent from the
\* resolved input map (and not _tempdir) fails with an error, and no
\* argument list with such an unexpanded $input{id} is passed to the
\* container launch.
C16_UnresolvedInputFails ==
    /\ (Expanded /\ UnresolvedRefs # {}) => epc = "raised"
    /\ epc = "launched" =>
          \A k \in DOMAIN args : \A id \in UnresolvedRefs :
             find_from(args[k], input_token(id), 1) = 0

\* C17: the template $input{_tempdir} expands to the mount root for every
\* resolved input map, a map with an entry of id _tempdir included.
C17_TempdirIsMountRoot ==
    (Expanded /\ container_args = <<input_token(TempdirId)>>) =>
        (epc # "raised" /\ args = <<DATA_VOLUME>>)

\* a text that stands for the value of an input and reads like no template
Opaque(id) == <<"<value of ">> \o id \o <<">">>

\* the inputs whose value is inserted as it is (not a file path)
InsertedAsIs ==
    {id \in DOMAIN inputs :
        id \notin DOMAIN taskInputs \/ taskInputs[id].target # "filepath"}

\* the resolved inputs, the values that are inserted as they are replaced by
\* their opaque texts
OpaqueInputs ==
    [id \in DOMAIN inputs |->
        IF id \in InsertedAsIs THEN [inputs[id] EXCEPT !.s = Opaque(id)]
        ELSE inputs[id]]

ExpandIds == <<(<<"a">>), (<<"b">>), TempdirId>>

RECURSIVE Reveal(_, _)
\* arg with the opaque text of each input from ExpandIds[i] on replaced by the
\* input's value
Reveal(arg, i) ==
    IF i > Len(ExpandIds) THEN arg
    ELSE Reveal(IF ExpandIds[i] \in InsertedAsIs
                THEN replace_all(arg, Opaque(ExpandIds[i]), inputs[ExpandIds[i]].s)
                ELSE arg,
                i + 1)

\* C25: text inserted as the value of an $input{id} substitution is never
\* itself scanned and expanded as a template: the expansion is the expansion
\* made with opaque texts in place of the values, each opaque text then
\* replaced by its value, so that an input's value matters only at the place
\* where the input is referenced.
C25_InsertedTextNotExpanded ==
    Expanded =>
        LET r == _expand_args(container_args, OpaqueInputs, taskInputs)
        IN /\ expand_error = r.err
           /\ r.err = NoError =>
                 args = [k \in DOMAIN r.newArgs |-> Reveal(r.newArgs[k], 1)]

-----------------------------------------------------------------------------
(* Specifications *)

\* the Task operations called in any order
Init == TaskInit /\ ValIdle /\ RunIdle /\ ExpandIdle
Next == TaskNext
Spec == Init /\ [][Next]_vars

\* validate_task_outputs applied to a set of declared outputs
TaskIdle ==
    /\ dirty = TRUE
    /\ input_data = <<>>
    /\ output_data = <<>>
    /\ lastOp = "idle"
    /\ raised = FALSE
    /\ ret = None
    /\ lastKw = <<>>
    /\ preDirty = TRUE
    /\ preInput = <<>>
    /\ assigned = TRUE
    /\ opRuns = 0
    /\ getRuns = 0
    /\ cleanRuns = 0
    /\ cleanCalls = 0
    /\ getRets = [n \in TaskOutputPorts |-> {}]
    /\ resets = 0
    /\ overflow = FALSE

InitValidate == TaskIdle /\ ValInit /\ RunIdle /\ ExpandIdle
NextValidate == ValidateStep
SpecValidate == InitValidate /\ [][NextValidate]_vars

\* one run of a task, for every task of RunOutputMaps
InitRun == TaskIdle /\ RunInit /\ ExpandIdle
NextRun == RunNext
SpecRun == InitRun /\ [][NextRun]_vars

\* the same runs under the fairness of a sequential program: run() takes its
\* next step, the select loop iterates, the container stops and the
\* docker-gc process ends; no exception is ever bound to happen
RunFairness ==
    /\ WF_vars(before_run \/ run_pull \/ run_configure \/ run_launch
                \/ run_attach_stdout \/ run_attach_stderr \/ run_select_loop
                \/ run_finally \/ run_docker_gc \/ run_collect
                \/ run_gc_wait \/ run_other_executor \/ cleanup)
    /\ WF_vars(select_loop_iteration)
    /\ WF_vars(container_exits)
SpecRunFair == SpecRun /\ RunFairness

\* the expansion of the container arguments of a run and their launch, for
\* every argument list of ContainerArgs and every input map of ResolvedInputs
InitExpand == TaskIdle /\ ValIdle /\ RunIdle /\ ExpandInit
NextExpand == ExpandNext
SpecExpand == InitExpand /\ [][NextExpand]_vars

====
